---- MODULE Spec2Model ----
(***************************************************************************)
(* Model of the hardware-control core of the pesticide robot               *)
(* (ai/hardware.py): StatusManager, DBLogger, MotorController, Sprayer and *)
(* the Robot orchestrator.  Every thread of the program is a process whose *)
(* position is a pc variable; a step of a process runs from one sleep (or  *)
(* blocking queue read) of the code to the next.  Time is not measured in  *)
(* the motor/robot part: any interleaving of the threads is allowed.       *)
(* Durations of the sprayer are whole seconds.  GPIO writes succeed.       *)
(***************************************************************************)
EXTENDS Integers, Sequences, FiniteSets, TLC

\* ------------------------------------------------------------------ bounds
MaxEdges == 2          \* encoder edges the wheels produce
MaxCalls == 2          \* calls made from outside (API requests) in one run
MaxClock == 2          \* wall-clock instants (utcnow) explored
TicksPerDay == 2       \* wall-clock instants per UTC day
MaxRecords == 3        \* activity-log entries recorded by direct log() calls

\* --------------------------------------------------------------- Config
USE_ENCODERS == TRUE
PUMP_FLOW_ML_PER_S == 10
DEFAULT_SPRAY_AREA_M2 == 1     \* 0.5 m2, in half square metres
SPRAY_MAX_DURATION == 30
MOTOR_STALL_MIN_TICKS == 2
ENABLE_MIN_TICKS == 1

\* Python's None where the other values are strings; an optional number is a
\* sequence, <<>> for None and <<v>> for v.
None == "None"

\* ------------------------------------------------------- StatusManager
Registered == {"motors", "encoders", "servos", "sprayer", "ultrasonic", "battery"}
Components == Registered \cup {"arm"}
Health == {"UNKNOWN", "OK", "ERROR", "NOT_PRESENT"}

NoError == [component |-> None, message |-> None, causes |-> {}]

\* The status dict of StatusManager.__init__; a key the dict does not hold
\* maps to "ABSENT".
InitStatus ==
    [ power |-> "OFF",
      last_error |-> NoError,
      last_error_time |-> "ABSENT",
      components |-> [c \in Components |->
                        IF c = "arm" THEN "ABSENT"
                        ELSE IF c = "encoders" /\ ~USE_ENCODERS THEN "NOT_PRESENT"
                        ELSE "UNKNOWN"],
      last_operation |-> <<>>,
      battery_v |-> <<>> ]

\* The register with the two things every mutator also writes: the error
\* indicator pin and the persisted status file.
InitSM == [status |-> InitStatus, error_pin |-> 0, status_file |-> InitStatus]

write_status_file(sm, st, pin) == [status |-> st, error_pin |-> pin, status_file |-> st]

\* dict.setdefault(key, value): writes only when the key is absent.
setdefault(d, key, value) == IF d[key] = "ABSENT" THEN [d EXCEPT ![key] = value] ELSE d

set_error(sm, component, message, causes) ==
    write_status_file(sm,
        [sm.status EXCEPT
            !.last_error = [component |-> component, message |-> message, causes |-> causes],
            !.last_error_time = "SET",
            !.components = setdefault(sm.status.components, component, "ERROR")],
        1)

\* clear_error without its GPIO.output(ERROR_PIN, GPIO.LOW)
clear_error_PinStays(sm, component) ==
    write_status_file(sm,
        [sm.status EXCEPT
            !.last_error = NoError,
            !.last_error_time = None,
            !.components = IF component /= None
                             THEN [@ EXCEPT ![component] = "OK"] ELSE @],
        sm.error_pin)

clear_error(sm, component) ==
    write_status_file(sm,
        [sm.status EXCEPT
            !.last_error = NoError,
            !.last_error_time = None,
            !.components = IF component /= None
                             THEN [@ EXCEPT ![component] = "OK"] ELSE @],
        0)

update_op(sm, op) ==
    write_status_file(sm, [sm.status EXCEPT !.last_operation = op], sm.error_pin)

update_component(sm, comp, val) ==
    write_status_file(sm, [sm.status EXCEPT !.components[comp] = val], sm.error_pin)

update_battery(sm, voltage) ==
    write_status_file(sm,
        [sm.status EXCEPT !.battery_v = voltage,
                          !.components["battery"] = IF voltage /= <<>> THEN "OK" ELSE "UNKNOWN"],
        sm.error_pin)

set_power(sm, p) ==
    write_status_file(sm, [sm.status EXCEPT !.power = p], sm.error_pin)

\* ---------------------------------------------------- MotorController
Abs(n) == IF n < 0 THEN 0 - n ELSE n

\* check_stall's verdict on two get_encoders() samples.
StallVerdict(start, end, min_ticks) ==
    /\ Abs(end.L - start.L) < min_ticks
    /\ Abs(end.R - start.R) < min_ticks

check_stall(start, end) ==
    IF ~USE_ENCODERS THEN FALSE ELSE StallVerdict(start, end, MOTOR_STALL_MIN_TICKS)

ZeroCounts == [L |-> 0, R |-> 0]
AllLow == <<0, 0, 0, 0>>          \* LEFT_FWD, LEFT_BWD, RIGHT_FWD, RIGHT_BWD

\* The pin levels each directional command hands to _set.
Direction(cmd) ==
    CASE cmd = "FWD"   -> <<1, 0, 1, 0>>
      [] cmd = "BWD"   -> <<0, 1, 0, 1>>
      [] cmd = "LEFT"  -> <<0, 1, 1, 0>>
      [] cmd = "RIGHT" -> <<1, 0, 0, 1>>
      [] cmd = "STOP"  -> <<0, 0, 0, 0>>
      [] cmd = "FWD_T" -> <<1, 0, 1, 0>>

DirectionCmds == {"FWD", "BWD", "LEFT", "RIGHT", "STOP"}
MovementCmds == {"FWD", "BWD", "LEFT", "RIGHT", "FWD_T"}

\* _set's status line, f"motors {lf}{lb}/{rf}{rb}".
MotorsOp(p) == <<"motors">> \o p

\* Arm._angle_to_duty, for angles that are multiples of 18.
angle_to_duty(ang) == 2 + (ang \div 18)

VARIABLES
    sm,          \* StatusManager: status dict, ERROR_PIN level, status file
    lastCall,    \* the StatusManager method a direct caller saw return last
    nCalls,      \* calls made from outside so far (bounded by MaxCalls)
    nEdges,      \* encoder edges so far (bounded by MaxEdges)
    cmd_q,       \* MotorController.cmd_q
    enabled,     \* MotorController.enabled
    enc_counts,  \* MotorController.enc_counts
    pins,        \* levels of LEFT_FWD, LEFT_BWD, RIGHT_FWD, RIGHT_BWD
    motor_enable,\* level of MOTOR_ENABLE
    mpc,         \* where the motor worker is in run()
    mcmd,        \* the command the motor worker holds
    mstart,      \* check_stall's first sample in the motor worker
    rpc,         \* where the thread inside start_robot()/stop_robot() is
    rstart,      \* enable()'s first encoder sample
    result,      \* what start_robot()/stop_robot() returned last
    atCall,      \* power and enabled as they were when that call began
    base_pwm,    \* Arm.base_pwm: "PWM", or None when PWM setup failed
    pwm_duty,    \* duty cycle of the shoulder and elbow servo
    centerMoves, \* _move_pwm calls made by the running/last start_robot()
    startOk,     \* start_robot() returned ok:true since power was last OFF
    enableOk,    \* enable() returned True and no DISABLE was processed since
    enableFailed,\* the last enable() returned False
    stopFailedOn,\* the last stop_robot() returned ok:false, begun with power ON
    stop_event,  \* the threads whose _stop_event is set
    spray_q,     \* Sprayer.cmd_q
    spc,         \* where the sprayer worker is in run()
    scmd,        \* the command the sprayer worker holds
    dur,         \* run()'s local dur, after clamping
    elapsed,     \* time.time() - t0 in the hold loop, in seconds
    sprayer_pin, \* level of SPRAYER_PIN
    db_q,        \* DBLogger.queue
    dbpc,        \* where the DBLogger thread is in run()
    table,       \* rows of pesticide_log, in rowid order
    now,         \* datetime.utcnow(), in clock instants
    lastSpray,   \* the last spray() call: its number, arguments and return value
    lastReport,  \* the last daily_report() call: its return value
    arm_q,       \* Arm.cmd_q
    apc,         \* where the arm worker is in run()
    acmd,        \* the (x, y) the arm worker holds
    ang,         \* run()'s shoulder_ang, elbow_ang
    bpc,         \* where the battery monitor is in run()
    voltage,     \* the voltage of the last poll, in tenths of a volt
    lastDist,    \* the last get_distance_cm() call: its number, echo and return value
    snapshot,    \* the dict the last get_snapshot() returned
    snapValue,   \* what that dict showed when it was returned
    doomed,      \* sprays queued when stop_robot() began to drain, not yet removed
    workerEnableFailed, \* the worker's ENABLE check failed and no ENABLE was put since
    thr,         \* per thread: the locked operation it is in and how far it got
    net,         \* the encoder edges delivered since the last reset, summed per side
    got,         \* what the last get_encoders() returned, and enc_counts at its copy
    us           \* the get_distance_cm() call in progress, poll by poll

statusVars == <<sm, lastCall, nCalls>>
envVars == <<nEdges>>
motorVars == <<cmd_q, enabled, enc_counts, pins, motor_enable, mpc, mcmd, mstart>>
robotVars == <<rpc, rstart, result, atCall, base_pwm, pwm_duty, centerMoves>>
histVars == <<startOk, enableOk, enableFailed, stopFailedOn>>
sprayVars == <<spray_q, spc, scmd, dur, elapsed, sprayer_pin, lastSpray>>
dbVars == <<db_q, dbpc, table, now, lastReport>>
armVars == <<arm_q, apc, acmd, ang>>
sensorVars == <<bpc, voltage, lastDist>>
snapVars == <<snapshot, snapValue>>
lockVars == <<thr, net, got>>
fineVars == <<workerEnableFailed, lockVars, us>>
auxVars == <<armVars, sensorVars, snapVars, doomed, fineVars>>
vars == <<statusVars, envVars, motorVars, robotVars, histVars, stop_event, sprayVars, dbVars,
          auxVars>>

NoResult == [call |-> None, ok |-> FALSE, msg |-> None]
NoCmd == [dur |-> 0, x |-> <<>>, y |-> <<>>, req_id |-> None]
NoReturn == [status |-> None, duration_s |-> <<>>, message |-> None]
NoAngles == [shoulder |-> 0, elbow |-> 0]
NoDistance == [n |-> 0, echo |-> FALSE, ret |-> <<>>]
NoReport == [n |-> 0, date |-> 0, today |-> FALSE, total_ml |-> 0, entries |-> <<>>,
             recorded |-> 0]

\* The threads that take the locks: the two encoder edge callbacks, the motor
\* worker, and a thread that calls the public API.
LockThreads == {"cbL", "cbR", "worker", "api"}
NoOp == [op |-> None, i |-> 0, d |-> 0, tmp |-> ZeroCounts]
UsIdle == [pc |-> "idle", left |-> 0, since |-> 0, ret |-> <<>>, echo |-> 0]

Init ==
    /\ sm = InitSM
    /\ lastCall = [op |-> None, component |-> None, prior |-> None]
    /\ nCalls = 0
    /\ nEdges = 0
    /\ cmd_q = <<>>
    /\ enabled = FALSE
    /\ enc_counts = ZeroCounts
    /\ pins = AllLow
    /\ motor_enable = 0
    /\ mpc = "idle"
    /\ mcmd = None
    /\ mstart = ZeroCounts
    /\ rpc = "idle"
    /\ rstart = ZeroCounts
    /\ result = NoResult
    /\ atCall = [power |-> "OFF", enabled |-> FALSE]
    /\ base_pwm \in {"PWM", None}
    /\ pwm_duty = [shoulder |-> 0, elbow |-> 0]
    /\ centerMoves = 0
    /\ startOk = FALSE
    /\ enableOk = FALSE
    /\ enableFailed = FALSE
    /\ stopFailedOn = FALSE
    /\ stop_event = {}
    /\ spray_q = <<>>
    /\ spc = "idle"
    /\ scmd = NoCmd
    /\ dur = 0
    /\ elapsed = 0
    /\ sprayer_pin = 0
    /\ db_q = <<>>
    /\ dbpc = "idle"
    /\ table = <<>>
    /\ now = 0
    /\ lastSpray = [n |-> 0, duration_s |-> <<>>, volume_ml |-> <<>>, ret |-> NoReturn]
    /\ lastReport = NoReport
    /\ arm_q = <<>>
    /\ apc = "idle"
    /\ acmd = <<>>
    /\ ang = NoAngles
    /\ bpc = "poll"
    /\ voltage = <<120>>
    /\ lastDist = NoDistance
    /\ snapshot = <<>>
    /\ snapValue = <<>>
    /\ doomed = 0
    /\ workerEnableFailed = FALSE
    /\ thr = [t \in LockThreads |-> NoOp]
    /\ net = ZeroCounts
    /\ got = ZeroCounts
    /\ us = UsIdle

\* ---------------------------------------- callers of the StatusManager API
Messages == {"stall detected", "no echo"}

CallSetError(c, m) ==
    /\ nCalls < MaxCalls
    /\ sm' = set_error(sm, c, m, {})
    /\ lastCall' = [op |-> "set_error", component |-> c, prior |-> sm.status.components[c]]
    /\ nCalls' = nCalls + 1
    /\ UNCHANGED <<auxVars, stop_event, sprayVars, dbVars, envVars, motorVars, robotVars, histVars>>

CallClearError(c) ==
    /\ nCalls < MaxCalls
    /\ sm' = clear_error(sm, c)
    /\ lastCall' = [op |-> "clear_error", component |-> c, prior |-> None]
    /\ nCalls' = nCalls + 1
    /\ UNCHANGED <<auxVars, stop_event, sprayVars, dbVars, envVars, motorVars, robotVars, histVars>>

CallUpdateComponent(c, v) ==
    /\ nCalls < MaxCalls
    /\ sm' = update_component(sm, c, v)
    /\ lastCall' = [op |-> "update_component", component |-> c, prior |-> None]
    /\ nCalls' = nCalls + 1
    /\ UNCHANGED <<auxVars, stop_event, sprayVars, dbVars, envVars, motorVars, robotVars, histVars>>

CallUpdateBattery(v) ==
    /\ nCalls < MaxCalls
    /\ sm' = update_battery(sm, v)
    /\ lastCall' = [op |-> "update_battery", component |-> "battery", prior |-> None]
    /\ nCalls' = nCalls + 1
    /\ UNCHANGED <<auxVars, stop_event, sprayVars, dbVars, envVars, motorVars, robotVars, histVars>>

CallSetPower(p) ==
    /\ nCalls < MaxCalls
    /\ sm' = set_power(sm, p)
    /\ lastCall' = [op |-> "set_power", component |-> None, prior |-> None]
    /\ nCalls' = nCalls + 1
    /\ UNCHANGED <<auxVars, stop_event, sprayVars, dbVars, envVars, motorVars, robotVars, histVars>>

CallUpdateOp(op) ==
    /\ nCalls < MaxCalls
    /\ sm' = update_op(sm, op)
    /\ lastCall' = [op |-> "update_op", component |-> None, prior |-> None]
    /\ nCalls' = nCalls + 1
    /\ UNCHANGED <<auxVars, stop_event, sprayVars, dbVars, envVars, motorVars, robotVars, histVars>>

\* get_snapshot(): dict(self.status) copies the top level only.  The values
\* under the other keys are replaced, never changed in place, by the mutators;
\* the "components" dict is changed in place, so the copy holds a reference to
\* the register's own dict.
ComponentsRef == "status.components"
get_snapshot(s) == [s.status EXCEPT !.components = ComponentsRef]

\* What a reader of a returned snapshot sees now.
Observe(snap) == [snap EXCEPT !.components = sm.status.components]

CallGetSnapshot ==
    /\ nCalls < MaxCalls
    /\ snapshot' = <<get_snapshot(sm)>>
    /\ snapValue' = <<sm.status>>
    /\ lastCall' = [op |-> "get_snapshot", component |-> None, prior |-> None]
    /\ nCalls' = nCalls + 1
    /\ UNCHANGED <<sm, stop_event, sprayVars, dbVars, envVars, motorVars, robotVars, histVars,
                   armVars, sensorVars, doomed, fineVars>>

NextStatus ==
    \/ \E c \in Components, m \in Messages : CallSetError(c, m)
    \/ \E c \in Components \cup {None} : CallClearError(c)
    \/ \E c \in Components, v \in Health : CallUpdateComponent(c, v)
    \/ \E v \in {<<>>, <<12>>} : CallUpdateBattery(v)
    \/ \E p \in {"ON", "OFF"} : CallSetPower(p)
    \/ \E op \in {<<"motors", 1, 0, 1, 0>>} : CallUpdateOp(op)
    \/ CallGetSnapshot

SpecStatus == Init /\ [][NextStatus]_vars

\* C5: right after set_error(component, ...) returns, the component's health
\* is ERROR and last_error names the component, whatever the component and
\* whatever its health was before.
C5_SetErrorMarksError ==
    lastCall.op = "set_error" =>
        /\ sm.status.components[lastCall.component] = "ERROR"
        /\ sm.status.last_error.component = lastCall.component


\* The worker threads, as Robot.cleanup() stops them.
Threads_NoDb == {"motors", "arm", "sprayer", "battery"}
Threads == {"motors", "arm", "sprayer", "battery", "db"}

\* the loop condition at the top of a worker's run()
LoopTop_Dies(thread) == "exited"
LoopTop(thread) == IF thread \in stop_event THEN "exited" ELSE "idle"

\* ------------------------------------------------- encoder edge callbacks
\* _enc_l / _enc_r: a rising edge of channel A; b is the level of channel B.
EncEdge(side, b) ==
    /\ nEdges < MaxEdges
    /\ nEdges' = nEdges + 1
    /\ enc_counts' = [enc_counts EXCEPT ![side] = @ + (IF b = 1 THEN 1 ELSE 0 - 1)]
    /\ UNCHANGED <<auxVars, stop_event, sprayVars, dbVars, statusVars, cmd_q, enabled, pins, motor_enable, mpc, mcmd, mstart,
                   robotVars, histVars>>

\* ------------------------------------------------ MotorController API puts
\* The Flask routes /motors/forward and /motors/stop are the only callers of
\* the drive methods; the other public methods have no caller in the program.
ApiCmds == {"FWD", "STOP"}
PublicCmds == {"FWD", "BWD", "LEFT", "RIGHT", "STOP", "FWD_T", "DISABLE"}

\* forward(), backward(), left(), right(), stop(), forward_for(t), disable()
MotorPut_Front(cmd) ==
    /\ nCalls < MaxCalls
    /\ nCalls' = nCalls + 1
    /\ cmd_q' = <<cmd>> \o cmd_q
    /\ UNCHANGED <<auxVars, stop_event, sprayVars, dbVars, envVars, sm, lastCall, enabled, enc_counts, pins, motor_enable, mpc, mcmd, mstart,
                   robotVars, histVars>>
MotorPut(cmd) ==
    /\ nCalls < MaxCalls
    /\ nCalls' = nCalls + 1
    /\ cmd_q' = Append(cmd_q, cmd)
    /\ workerEnableFailed' = (workerEnableFailed /\ cmd /= "ENABLE")
    /\ UNCHANGED <<armVars, sensorVars, snapVars, doomed, lockVars, us, stop_event, sprayVars, dbVars, envVars, sm, lastCall, enabled, enc_counts, pins, motor_enable, mpc, mcmd, mstart,
                   robotVars, histVars>>

\* ------------------------------------------------ MotorController.run()
\* Commands waiting or in the worker's hands.
Pending(cmd) ==
    Cardinality({i \in 1..Len(cmd_q) : cmd_q[i] = cmd})
        + (IF mcmd = cmd /\ mpc /= "idle" THEN 1 ELSE 0)

\* cmd == "ENABLE", up to time.sleep(0.05)
MotorEnable ==
    /\ mpc = "idle" /\ cmd_q /= <<>> /\ Head(cmd_q) = "ENABLE"
    /\ cmd_q' = Tail(cmd_q)
    /\ mcmd' = "ENABLE"
    /\ motor_enable' = 1
    /\ mpc' = "enable_sleep"
    /\ UNCHANGED <<auxVars, stop_event, sprayVars, dbVars, envVars, statusVars, enabled, enc_counts, pins, mstart, robotVars, histVars>>

\* ... enabled = True, set_power("ON"), first sample of check_stall(0.2)
MotorEnableSet ==
    /\ mpc = "enable_sleep"
    /\ enabled' = TRUE
    /\ sm' = set_power(sm, "ON")
    /\ mstart' = enc_counts
    /\ mpc' = "enable_check"
    /\ UNCHANGED <<auxVars, stop_event, sprayVars, dbVars, envVars, lastCall, nCalls, cmd_q, enc_counts, pins, motor_enable, mcmd,
                   robotVars, histVars>>

\* ... second sample of check_stall(0.2); then the first sample of the
\* stall check that follows every command
MotorEnableCheck ==
    /\ mpc = "enable_check"
    /\ IF check_stall(mstart, enc_counts)
         THEN /\ enabled' = FALSE
              /\ sm' = set_error(sm, "motors", "enable failed: no encoder response", {})
              /\ workerEnableFailed' = TRUE
         ELSE UNCHANGED <<enabled, sm, workerEnableFailed>>
    /\ mstart' = enc_counts
    /\ mpc' = "stall_wait"
    /\ UNCHANGED <<armVars, sensorVars, snapVars, doomed, lockVars, us, stop_event, sprayVars, dbVars, envVars, lastCall, nCalls, cmd_q, enc_counts, pins, motor_enable, mcmd,
                   robotVars, histVars>>

\* cmd == "DISABLE": self.stop() is the public stop(), which enqueues STOP
MotorDisable ==
    /\ mpc = "idle" /\ cmd_q /= <<>> /\ Head(cmd_q) = "DISABLE"
    /\ cmd_q' = Append(Tail(cmd_q), "STOP")
    /\ mcmd' = "DISABLE"
    /\ motor_enable' = 0
    /\ enabled' = FALSE
    /\ sm' = set_power(sm, "OFF")
    /\ startOk' = FALSE
    /\ enableOk' = FALSE
    /\ mstart' = enc_counts
    /\ mpc' = "stall_wait"
    /\ UNCHANGED <<auxVars, stop_event, sprayVars, dbVars, envVars, lastCall, nCalls, enc_counts, pins, robotVars, enableFailed, stopFailedOn>>

\* cmd in FWD, BWD, LEFT, RIGHT, STOP: _set(...)
MotorDirection ==
    /\ mpc = "idle" /\ cmd_q /= <<>> /\ Head(cmd_q) \in DirectionCmds
    /\ cmd_q' = Tail(cmd_q)
    /\ mcmd' = Head(cmd_q)
    /\ pins' = Direction(Head(cmd_q))
    /\ sm' = update_op(sm, MotorsOp(Direction(Head(cmd_q))))
    /\ mstart' = enc_counts
    /\ mpc' = "stall_wait"
    /\ UNCHANGED <<auxVars, stop_event, sprayVars, dbVars, envVars, lastCall, nCalls, enabled, enc_counts, motor_enable, robotVars, histVars>>

\* cmd == ("FWD_T", t): _set(1, 0, 1, 0), then time.sleep(t)
MotorForwardFor ==
    /\ mpc = "idle" /\ cmd_q /= <<>> /\ Head(cmd_q) = "FWD_T"
    /\ cmd_q' = Tail(cmd_q)
    /\ mcmd' = "FWD_T"
    /\ pins' = Direction("FWD_T")
    /\ sm' = update_op(sm, MotorsOp(Direction("FWD_T")))
    /\ mpc' = "fwd_hold"
    /\ UNCHANGED <<auxVars, stop_event, sprayVars, dbVars, envVars, lastCall, nCalls, enabled, enc_counts, motor_enable, mstart,
                   robotVars, histVars>>

\* ... _set(0, 0, 0, 0) after the hold
MotorForwardDone ==
    /\ mpc = "fwd_hold"
    /\ pins' = AllLow
    /\ sm' = update_op(sm, MotorsOp(AllLow))
    /\ mstart' = enc_counts
    /\ mpc' = "stall_wait"
    /\ UNCHANGED <<auxVars, stop_event, sprayVars, dbVars, envVars, lastCall, nCalls, cmd_q, enabled, enc_counts, motor_enable, mcmd,
                   robotVars, histVars>>

\* What the worker does once check_stall(MOTOR_STALL_TIMEOUT) returned True.
OnStall(s) ==
    set_error(update_op(s, MotorsOp(AllLow)), "motors", "stall detected",
              {"mechanical jam", "driver", "battery low"})

\* "after movement, optionally check stall": runs after every command
MotorStallCheck ==
    /\ mpc = "stall_wait"
    /\ IF check_stall(mstart, enc_counts)
         THEN /\ pins' = AllLow
              /\ sm' = OnStall(sm)
         ELSE UNCHANGED <<pins, sm>>
    /\ mpc' = LoopTop("motors")
    /\ mcmd' = None
    /\ mstart' = ZeroCounts
    /\ UNCHANGED <<auxVars, stop_event, sprayVars, dbVars, envVars, lastCall, nCalls, cmd_q, enabled, enc_counts, motor_enable,
                   robotVars, histVars>>

\* cmd_q.get times out and the loop condition finds the stop event set
MotorExit ==
    /\ mpc = "idle"
    /\ "motors" \in stop_event
    /\ mpc' = "exited"
    /\ UNCHANGED <<auxVars, statusVars, envVars, cmd_q, enabled, enc_counts, pins, motor_enable,
                   mcmd, mstart, robotVars, histVars, stop_event, sprayVars, dbVars>>

\* ---------------------------------------------------------------- Robot
StartFailMotors == [call |-> "start", ok |-> FALSE, msg |-> "motors not responding; check connections"]
StartFailArm == [call |-> "start", ok |-> FALSE, msg |-> "arm not responding"]
StartOk == [call |-> "start", ok |-> TRUE, msg |-> "robot powered ON"]
StopFail == [call |-> "stop", ok |-> FALSE, msg |-> "motors did not stop"]
StopOk == [call |-> "stop", ok |-> TRUE, msg |-> "robot powered OFF"]

\* enable()'s verdict on its two samples: False when neither wheel moved a tick.
enable_result(start, end) ==
    ~(USE_ENCODERS /\ StallVerdict(start, end, ENABLE_MIN_TICKS))

\* start_robot(): "if not success: return {ok: False, ...}"
ReturnsNotResponding_Never(success) == FALSE
ReturnsNotResponding(success) == ~success

\* start_robot() takes Robot._lock and calls motors.enable(): put ENABLE,
\* then time.sleep(0.2)
StartRobot ==
    /\ rpc = "idle"
    /\ nCalls < MaxCalls
    /\ nCalls' = nCalls + 1
    /\ cmd_q' = Append(cmd_q, "ENABLE")
    /\ rpc' = "enable_sleep1"
    /\ atCall' = [power |-> sm.status.power, enabled |-> enabled]
    /\ centerMoves' = 0
    /\ enableOk' = FALSE
    /\ enableFailed' = FALSE
    /\ stopFailedOn' = FALSE
    /\ workerEnableFailed' = FALSE
    /\ UNCHANGED <<armVars, sensorVars, snapVars, doomed, lockVars, us, stop_event, sprayVars, dbVars, envVars, sm, lastCall, enabled, enc_counts, pins, motor_enable, mpc, mcmd, mstart,
                   rstart, result, base_pwm, pwm_duty, startOk>>

\* enable(): start = get_encoders(), then time.sleep(0.2)
StartSample ==
    /\ rpc = "enable_sleep1"
    /\ rstart' = enc_counts
    /\ rpc' = "enable_sleep2"
    /\ UNCHANGED <<auxVars, stop_event, sprayVars, dbVars, envVars, statusVars, motorVars, result, atCall, base_pwm, pwm_duty, centerMoves,
                   histVars>>

\* enable(): end = get_encoders() and the verdict; back in start_robot() the
\* early return, or the shoulder's ChangeDutyCycle, or (no PWM) power ON
StartEnabled ==
    /\ rpc = "enable_sleep2"
    /\ LET success == enable_result(rstart, enc_counts) IN
        /\ enabled' = success
        /\ enableOk' = success
        /\ enableFailed' = ~success
        /\ IF ReturnsNotResponding(success)
             THEN /\ sm' = IF success THEN sm
                           ELSE set_error(sm, "motors", "enable failed: no encoder increase", {})
                  /\ result' = StartFailMotors
                  /\ rpc' = "idle"
                  /\ UNCHANGED <<pwm_duty, centerMoves, startOk>>
             ELSE LET s1 == IF success THEN sm
                            ELSE set_error(sm, "motors", "enable failed: no encoder increase", {})
                  IN IF base_pwm /= None
                       THEN /\ sm' = s1
                            /\ pwm_duty' = [pwm_duty EXCEPT !.shoulder = angle_to_duty(90)]
                            /\ centerMoves' = 1
                            /\ rpc' = "center_shoulder"
                            /\ UNCHANGED <<result, startOk>>
                       ELSE /\ sm' = set_power(s1, "ON")
                            /\ startOk' = TRUE
                            /\ result' = StartOk
                            /\ rpc' = "idle"
                            /\ UNCHANGED <<pwm_duty, centerMoves>>
    /\ rstart' = ZeroCounts
    /\ UNCHANGED <<auxVars, stop_event, sprayVars, dbVars, envVars, lastCall, nCalls, cmd_q, enc_counts, pins, motor_enable, mpc, mcmd, mstart,
                   atCall, base_pwm, stopFailedOn>>

\* _move_pwm(shoulder_pwm, 90) ends, _move_pwm(elbow_pwm, 90) begins
StartCenterElbow ==
    /\ rpc = "center_shoulder"
    /\ pwm_duty' = [shoulder |-> 0, elbow |-> angle_to_duty(90)]
    /\ centerMoves' = 2
    /\ rpc' = "center_elbow"
    /\ UNCHANGED <<auxVars, stop_event, sprayVars, dbVars, envVars, statusVars, motorVars, rstart, result, atCall, base_pwm, histVars>>

\* _move_pwm(elbow_pwm, 90) ends; set_power("ON"); return ok
StartDone ==
    /\ rpc = "center_elbow"
    /\ pwm_duty' = [pwm_duty EXCEPT !.elbow = 0]
    /\ sm' = set_power(sm, "ON")
    /\ startOk' = TRUE
    /\ result' = StartOk
    /\ rpc' = "idle"
    /\ UNCHANGED <<auxVars, stop_event, sprayVars, dbVars, envVars, lastCall, nCalls, motorVars, rstart, atCall, base_pwm, centerMoves,
                   enableOk, enableFailed, stopFailedOn>>

\* a ChangeDutyCycle call raises: "servo move failed"
StartCenterRaises ==
    /\ rpc \in {"center_shoulder", "center_elbow"}
    /\ sm' = set_error(sm, "arm", "servo move failed", {})
    /\ result' = StartFailArm
    /\ rpc' = "idle"
    /\ UNCHANGED <<auxVars, stop_event, sprayVars, dbVars, envVars, lastCall, nCalls, motorVars, rstart, atCall, base_pwm, pwm_duty,
                   centerMoves, histVars>>

\* stop_robot() takes Robot._lock; motors.stop()
StopRobot ==
    /\ rpc = "idle"
    /\ nCalls < MaxCalls
    /\ nCalls' = nCalls + 1
    /\ cmd_q' = Append(cmd_q, "STOP")
    /\ rpc' = "stop_drain"
    /\ atCall' = [power |-> sm.status.power, enabled |-> enabled]
    /\ stopFailedOn' = FALSE
    /\ doomed' = Len(spray_q)
    /\ UNCHANGED <<armVars, sensorVars, snapVars, fineVars, stop_event, sprayVars, dbVars, envVars, sm, lastCall, enabled, enc_counts, pins, motor_enable, mpc, mcmd, mstart,
                   rstart, result, base_pwm, pwm_duty, centerMoves,
                   startOk, enableOk, enableFailed>>

\* "while not self.sprayer.cmd_q.empty(): self.sprayer.cmd_q.get_nowait()":
\* one turn of the loop
StopDrainOne ==
    /\ rpc = "stop_drain"
    /\ spray_q /= <<>>
    /\ spray_q' = Tail(spray_q)
    /\ doomed' = IF doomed > 0 THEN doomed - 1 ELSE 0
    /\ UNCHANGED <<statusVars, envVars, motorVars, robotVars, histVars, stop_event,
                   spc, scmd, dur, elapsed, sprayer_pin, lastSpray, dbVars,
                   armVars, sensorVars, snapVars, fineVars>>

\* the sprayer queue is found empty; motors.disable()
StopDisable ==
    /\ rpc = "stop_drain"
    /\ spray_q = <<>>
    /\ cmd_q' = Append(cmd_q, "DISABLE")
    /\ rpc' = "stop_check"
    /\ UNCHANGED <<auxVars, stop_event, sprayVars, dbVars, envVars, statusVars, enabled, enc_counts, pins, motor_enable, mpc, mcmd, mstart,
                   rstart, result, atCall, base_pwm, pwm_duty, centerMoves, histVars>>

\* "if self.motors.enabled: ... return {ok: False}", else set_power("OFF")
StopCheck ==
    /\ rpc = "stop_check"
    /\ IF enabled
         THEN /\ sm' = set_error(sm, "motors", "failed to disable", {})
              /\ result' = StopFail
              /\ stopFailedOn' = (atCall.power = "ON")
              /\ UNCHANGED startOk
         ELSE /\ sm' = set_power(sm, "OFF")
              /\ result' = StopOk
              /\ startOk' = FALSE
              /\ UNCHANGED stopFailedOn
    /\ rpc' = "idle"
    /\ UNCHANGED <<auxVars, stop_event, sprayVars, dbVars, envVars, lastCall, nCalls, motorVars, rstart, atCall, base_pwm, pwm_duty,
                   centerMoves, enableOk, enableFailed>>

\* The robot as the HTTP routes drive it: /start, /stop, /motors/forward and
\* /motors/stop.  No route calls forward_for(), so the worker's FWD_T branch
\* belongs to SpecMotor only.
Next ==
    \/ \E side \in {"L", "R"}, b \in {0, 1} : EncEdge(side, b)
    \/ \E cmd \in ApiCmds : MotorPut(cmd)
    \/ MotorEnable
    \/ MotorEnableSet
    \/ MotorEnableCheck
    \/ MotorDisable
    \/ MotorDirection
    \/ MotorStallCheck
    \/ StartRobot
    \/ StartSample
    \/ StartEnabled
    \/ StartCenterElbow
    \/ StartDone
    \/ StartCenterRaises
    \/ StopRobot
    \/ StopDisable
    \/ StopCheck

Spec == Init /\ [][Next]_vars
\* The motor controller alone, driven through all its public put methods.
NextMotor ==
    \/ \E side \in {"L", "R"}, b \in {0, 1} : EncEdge(side, b)
    \/ \E cmd \in PublicCmds : MotorPut(cmd)
    \/ MotorDisable
    \/ MotorDirection
    \/ MotorForwardFor
    \/ MotorForwardDone
    \/ MotorStallCheck

SpecMotor == Init /\ [][NextMotor]_vars

\* -------------------------------------------------------------- Sprayer
\* Inputs of spray(): seconds and millilitres; every volume is a multiple of
\* the flow rate, so the division is exact.  Each sleep of the hold loop is
\* one second here (twenty polls of 0.05 s).
Durations == {<<>>, <<0>>, <<100>>}
Volumes == {<<>>, <<50>>}
Coordinates == {<< <<>>, <<>> >>, << <<3>>, <<4>> >>}     \* (x, y)

\* spray(): duration_s as resolved from the arguments.  max(1e-6, flow) is
\* the flow rate itself.
ResolveDuration_VolumeFirst(duration_s, volume_ml) ==
    IF volume_ml /= <<>> THEN volume_ml[1] \div PUMP_FLOW_ML_PER_S
    ELSE IF duration_s = <<>> THEN 1 ELSE duration_s[1]
ResolveDuration(duration_s, volume_ml) ==
    IF duration_s = <<>>
      THEN IF volume_ml = <<>> THEN 1 ELSE volume_ml[1] \div PUMP_FLOW_ML_PER_S
      ELSE duration_s[1]

\* spray(duration_s, volume_ml, x, y, req_id)
SprayCall(duration_s, volume_ml, xy) ==
    /\ nCalls < MaxCalls
    /\ nCalls' = nCalls + 1
    /\ LET d == ResolveDuration(duration_s, volume_ml) IN
        IF d <= 0
          THEN /\ sm' = set_error(sm, "sprayer", "spray failed: duration must be positive", {})
               /\ lastSpray' = [n |-> lastSpray.n + 1, duration_s |-> duration_s,
                                volume_ml |-> volume_ml,
                                ret |-> [status |-> "error", duration_s |-> <<>>,
                                         message |-> "duration must be positive"]]
               /\ UNCHANGED spray_q
          ELSE /\ spray_q' = Append(spray_q, [dur |-> d, x |-> xy[1], y |-> xy[2], req_id |-> None])
               /\ lastSpray' = [n |-> lastSpray.n + 1, duration_s |-> duration_s,
                                volume_ml |-> volume_ml,
                                ret |-> [status |-> "queued", duration_s |-> <<d>>,
                                         message |-> None]]
               /\ UNCHANGED sm
    /\ UNCHANGED <<auxVars, lastCall, envVars, motorVars, robotVars, histVars, stop_event,
                   spc, scmd, dur, elapsed, sprayer_pin, dbVars>>

\* run(): "if dur > SPRAY_MAX_DURATION: ... dur = SPRAY_MAX_DURATION"
Clamp_Off(d) == d
Clamp(d) == IF d > SPRAY_MAX_DURATION THEN SPRAY_MAX_DURATION ELSE d

\* run(): a command is taken; the clip error; the pump goes HIGH; t0
SprayGet ==
    /\ spc = "idle" /\ spray_q /= <<>>
    /\ doomed' = IF doomed > 0 THEN doomed - 1 ELSE 0
    /\ LET cmd == Head(spray_q) IN
        /\ spray_q' = Tail(spray_q)
        /\ IF cmd.dur <= 0
             THEN UNCHANGED <<sm, scmd, dur, elapsed, sprayer_pin, spc>>
             ELSE /\ scmd' = cmd
                  /\ sm' = IF cmd.dur > SPRAY_MAX_DURATION
                             THEN set_error(sm, "sprayer", "excessive duration clipped",
                                            {"bad command"})
                             ELSE sm
                  /\ dur' = Clamp(cmd.dur)
                  /\ sprayer_pin' = 1
                  /\ elapsed' = 0
                  /\ spc' = "hold"
    /\ UNCHANGED <<armVars, sensorVars, snapVars, fineVars, lastCall, nCalls, envVars, motorVars, robotVars, histVars, stop_event,
                   lastSpray, dbVars>>

\* the hold loop goes round once more: "while time.time() - t0 < dur" and no
\* "if self._stop_event.is_set(): break"
HoldContinues_NoPoll == elapsed < dur
HoldContinues == elapsed < dur /\ "sprayer" \notin stop_event

\* the hold loop: time.time() - t0 < dur and the stop event is clear: sleep
SprayHold ==
    /\ spc = "hold"
    /\ HoldContinues
    /\ elapsed' = elapsed + 1
    /\ UNCHANGED <<auxVars, statusVars, envVars, motorVars, robotVars, histVars, stop_event,
                   spray_q, spc, scmd, dur, sprayer_pin, lastSpray, dbVars>>

\* DBLogger.log(ml, area, x, y, dur): queue.put; "at" remembers when
log_Lifo(q, ml, area, x, y, d, at) ==
    <<[ml_used |-> ml, area_m2 |-> area, x |-> x, y |-> y, duration_s |-> d, at |-> at]>> \o q
log(q, ml, area, x, y, d, at) ==
    Append(q, [ml_used |-> ml, area_m2 |-> area, x |-> x, y |-> y, duration_s |-> d,
               at |-> at])

\* the hold loop ends (time is up, or the stop event is set): pump LOW,
\* ml = dur * flow, db.log, update_op; back to the top of the worker loop
SprayDone ==
    /\ spc = "hold"
    /\ ~HoldContinues
    /\ sprayer_pin' = 0
    /\ db_q' = log(db_q, dur * PUMP_FLOW_ML_PER_S, DEFAULT_SPRAY_AREA_M2,
                   scmd.x, scmd.y, dur, now)
    /\ sm' = update_op(sm, <<"spray", dur * PUMP_FLOW_ML_PER_S, scmd.x, scmd.y>>)
    /\ spc' = IF "sprayer" \in stop_event THEN "exited" ELSE "idle"
    /\ UNCHANGED <<auxVars, lastCall, nCalls, envVars, motorVars, robotVars, histVars, stop_event,
                   spray_q, scmd, dur, elapsed, lastSpray, dbpc, table, now, lastReport>>

\* cmd_q.get times out and the loop condition finds the stop event set
SprayExit ==
    /\ spc = "idle"
    /\ "sprayer" \in stop_event
    /\ spc' = "exited"
    /\ UNCHANGED <<auxVars, statusVars, envVars, motorVars, robotVars, histVars, stop_event,
                   spray_q, scmd, dur, elapsed, sprayer_pin, lastSpray, dbVars>>

\* ------------------------------------------------------------- DBLogger
\* run(): one item is taken and inserted with ts = utcnow(), then committed
DbInsert ==
    /\ dbpc = "idle" /\ db_q /= <<>>
    /\ table' = Append(table, [ts |-> now, item |-> Head(db_q)])
    /\ db_q' = Tail(db_q)
    /\ dbpc' = IF "db" \in stop_event THEN "exited" ELSE "idle"
    /\ UNCHANGED <<auxVars, statusVars, envVars, motorVars, robotVars, histVars, stop_event,
                   sprayVars, now, lastReport>>

\* queue.get times out and the loop condition finds the stop event set
DbExit ==
    /\ dbpc = "idle"
    /\ "db" \in stop_event
    /\ dbpc' = "exited"
    /\ UNCHANGED <<auxVars, statusVars, envVars, motorVars, robotVars, histVars, stop_event,
                   sprayVars, db_q, table, now, lastReport>>

\* The UTC date of a clock instant.
DateOf(t) == t \div TicksPerDay

RECURSIVE Insert(_, _)
Insert(row, sorted) ==
    IF sorted = <<>> THEN <<row>>
    ELSE IF row.ts < Head(sorted).ts THEN <<row>> \o sorted
    ELSE <<Head(sorted)>> \o Insert(row, Tail(sorted))

\* ORDER BY ts, rows of equal ts in rowid order.
RECURSIVE OrderByTs(_)
OrderByTs(rows) ==
    IF rows = <<>> THEN <<>>
    ELSE Insert(rows[Len(rows)], OrderByTs(SubSeq(rows, 1, Len(rows) - 1)))

RECURSIVE SumMl(_)
SumMl(rows) == IF rows = <<>> THEN 0 ELSE Head(rows).item.ml_used + SumMl(Tail(rows))

\* SELECT ... WHERE ts BETWEEN start AND end ORDER BY ts
SelectDay(rows, day) ==
    LET InDay(r) == DateOf(r.ts) = day IN OrderByTs(SelectSeq(rows, InDay))

\* log() calls made on the given day, committed or not.
RecordedOn(day) ==
    Cardinality({i \in 1..Len(table) : DateOf(table[i].item.at) = day})
        + Cardinality({i \in 1..Len(db_q) : DateOf(db_q[i].at) = day})

\* daily_report(day): day = None is today
DailyReport(day) ==
    /\ nCalls < MaxCalls
    /\ nCalls' = nCalls + 1
    /\ LET d == IF day = <<>> THEN DateOf(now) ELSE day[1]
           rows == SelectDay(table, d)
       IN lastReport' = [n |-> lastReport.n + 1, date |-> d, today |-> (d = DateOf(now)),
                         total_ml |-> SumMl(rows), entries |-> rows,
                         recorded |-> RecordedOn(d)]
    /\ UNCHANGED <<auxVars, sm, lastCall, envVars, motorVars, robotVars, histVars, stop_event,
                   sprayVars, db_q, dbpc, table, now>>

\* the wall clock moves on
Tick ==
    /\ now < MaxClock
    /\ now' = now + 1
    /\ UNCHANGED <<auxVars, statusVars, envVars, motorVars, robotVars, histVars, stop_event,
                   sprayVars, db_q, dbpc, table, lastReport>>

\* Robot.cleanup(): every thread's stop event is set

Cleanup ==
    /\ stop_event' = Threads
    /\ UNCHANGED nCalls
    /\ UNCHANGED <<auxVars, sm, lastCall, envVars, motorVars, robotVars, histVars, sprayVars, dbVars>>

NextSpray ==
    \/ \E d \in Durations, v \in Volumes, xy \in Coordinates : SprayCall(d, v, xy)
    \/ SprayGet
    \/ SprayHold
    \/ SprayDone
    \/ SprayExit
    \/ DbInsert
    \/ DbExit
    \/ \E day \in {<<>>} \cup {<<d>> : d \in 0..DateOf(MaxClock)} : DailyReport(day)
    \/ Tick
    \/ Cleanup

SpecSpray == Init /\ [][NextSpray]_vars

\* ------------------------------------------------------------------ Arm
\* Arm geometry (mm)
L1 == 120
L2 == 120

\* math.degrees(math.acos(n / d)) for the ratios that have a whole-degree
\* arc cosine: 1, 1/2, 0, -1/2, -1.
AcosDeg(n, d) ==
    CASE n = d      -> 0
      [] 2 * n = d  -> 60
      [] n = 0      -> 90
      [] 2 * n = -d -> 120
      [] n = -d     -> 180

\* math.degrees(math.atan2(y, x)) on the axes and the diagonals.
Atan2Deg(y, x) ==
    CASE x = 0 /\ y = 0  -> 0
      [] y = 0 /\ x > 0  -> 0
      [] y = x /\ x > 0  -> 45
      [] x = 0 /\ y > 0  -> 90
      [] y = -x /\ x < 0 -> 135
      [] y = 0 /\ x < 0  -> 180
      [] y = x /\ x < 0  -> -135
      [] x = 0 /\ y < 0  -> -90
      [] y = -x /\ x > 0 -> -45

\* math.degrees(math.atan2(k2, k1)) with k1 = L1 + L2 cos q2, k2 = L2 sin q2:
\* for equal links this is q2 / 2 (at q2 = 180 the sine is a tiny positive
\* float and k1 is 0.0, which gives 90).
AtanK2K1(q2) == q2 \div 2

\* "r > L1 + L2 or r < abs(L1 - L2)", r = hypot(x, y), compared by squares
Unreachable(x, y) ==
    \/ x * x + y * y > (L1 + L2) * (L1 + L2)
    \/ x * x + y * y < (L1 - L2) * (L1 - L2)

\* ik_2link(x, y): servo angles in degrees, or the ValueError
ik_2link(x, y) ==
    IF Unreachable(x, y)
      THEN [ok |-> FALSE, shoulder |-> 0, elbow |-> 0]
      ELSE LET elbow_deg == AcosDeg(x * x + y * y - L1 * L1 - L2 * L2, 2 * L1 * L2)
               shoulder_deg == Atan2Deg(y, x) - AtanK2K1(elbow_deg)
           IN [ok |-> TRUE, shoulder |-> 90 + shoulder_deg,
               elbow |-> 90 + (elbow_deg - 90)]

\* Targets whose angles are whole degrees (on the axes and diagonals, at
\* r = 0, 120, 120 sqrt 2 and 240) and targets out of reach.
Coords == {-240, -120, 0, 120, 240}
Targets == Coords \X Coords

\* move_to(x, y)
MoveTo(x, y) ==
    /\ nCalls < MaxCalls
    /\ nCalls' = nCalls + 1
    /\ arm_q' = Append(arm_q, <<x, y>>)
    /\ UNCHANGED <<sm, lastCall, envVars, motorVars, robotVars, histVars, stop_event,
                   sprayVars, dbVars, apc, acmd, ang, sensorVars, snapVars, fineVars, doomed>>

\* PWM.ChangeDutyCycle raises ValueError outside 0.0 .. 100.0
DutyRaises(duty) == duty < 0 \/ duty > 100

\* run(): a target is taken; ik_2link; _move_pwm(shoulder_pwm, ...) up to its
\* sleep, or the except branch
ArmGet ==
    /\ apc = "idle" /\ arm_q /= <<>>
    /\ arm_q' = Tail(arm_q)
    /\ LET x == Head(arm_q)[1]
           y == Head(arm_q)[2]
           ik == ik_2link(x, y)
       IN IF ~ik.ok
            THEN /\ sm' = set_error(sm, "arm", "IK error: target unreachable", {})
                 /\ apc' = LoopTop("arm")
                 /\ UNCHANGED <<acmd, ang, pwm_duty>>
            ELSE /\ acmd' = Head(arm_q)
                 /\ ang' = [shoulder |-> ik.shoulder, elbow |-> ik.elbow]
                 /\ IF base_pwm /= None /\ DutyRaises(angle_to_duty(ik.shoulder))
                      THEN /\ sm' = set_error(sm, "arm", "IK error: dutycycle out of range", {})
                           /\ apc' = LoopTop("arm")
                           /\ UNCHANGED pwm_duty
                      ELSE /\ pwm_duty' = IF base_pwm = None THEN pwm_duty
                                          ELSE [pwm_duty EXCEPT
                                                  !.shoulder = angle_to_duty(ik.shoulder)]
                           /\ apc' = "shoulder"
                           /\ UNCHANGED sm
    /\ UNCHANGED <<lastCall, nCalls, envVars, motorVars, rpc, rstart, result, atCall,
                   base_pwm, centerMoves, histVars, stop_event, sprayVars, dbVars,
                   sensorVars, snapVars, fineVars, doomed>>

\* _move_pwm(shoulder_pwm, ...) ends, _move_pwm(elbow_pwm, ...) begins
ArmElbow ==
    /\ apc = "shoulder"
    /\ pwm_duty' = IF base_pwm = None THEN pwm_duty
                   ELSE [shoulder |-> 0, elbow |-> angle_to_duty(ang.elbow)]
    /\ apc' = "elbow"
    /\ UNCHANGED <<statusVars, envVars, motorVars, rpc, rstart, result, atCall,
                   base_pwm, centerMoves, histVars, stop_event, sprayVars, dbVars,
                   arm_q, acmd, ang, sensorVars, snapVars, fineVars, doomed>>

\* _move_pwm(elbow_pwm, ...) ends; update_op({"arm_move": ...})
ArmDone ==
    /\ apc = "elbow"
    /\ pwm_duty' = IF base_pwm = None THEN pwm_duty ELSE [pwm_duty EXCEPT !.elbow = 0]
    /\ sm' = update_op(sm, <<"arm_move", acmd[1], acmd[2]>>)
    /\ apc' = LoopTop("arm")
    /\ UNCHANGED <<lastCall, nCalls, envVars, motorVars, rpc, rstart, result, atCall,
                   base_pwm, centerMoves, histVars, stop_event, sprayVars, dbVars,
                   arm_q, acmd, ang, sensorVars, snapVars, fineVars, doomed>>

\* cmd_q.get times out and the loop condition finds the stop event set
ArmExit ==
    /\ apc = "idle"
    /\ "arm" \in stop_event
    /\ apc' = "exited"
    /\ UNCHANGED <<statusVars, envVars, motorVars, robotVars, histVars, stop_event,
                   sprayVars, dbVars, arm_q, acmd, ang, sensorVars, snapVars, fineVars, doomed>>

\* The arm alone, driven through move_to().
NextArm ==
    \/ \E t \in Targets : MoveTo(t[1], t[2])
    \/ ArmGet
    \/ ArmElbow
    \/ ArmDone

SpecArm == Init /\ [][NextArm]_vars

\* ----------------------------------------------------------- Ultrasonic
\* Echo pulse widths in milliseconds; <<>> is an echo that never comes.
Echoes == {<<>>, <<1>>, <<2>>}

\* dist_cm = (duration * 34300) / 2, in whole centimetres
dist_cm(ms) == (ms * 343) \div 20

\* get_distance_cm()
UsGetDistance(echo) ==
    /\ nCalls < MaxCalls
    /\ nCalls' = nCalls + 1
    /\ IF echo = <<>>
         THEN /\ sm' = set_error(sm, "ultrasonic", "no echo", {"wiring", "power"})
              /\ lastDist' = [n |-> lastDist.n + 1, echo |-> FALSE, ret |-> <<>>]
         ELSE /\ sm' = update_component(sm, "ultrasonic", "OK")
              /\ lastDist' = [n |-> lastDist.n + 1, echo |-> TRUE,
                              ret |-> <<dist_cm(echo[1])>>]
    /\ UNCHANGED <<lastCall, envVars, motorVars, robotVars, histVars, stop_event,
                   sprayVars, dbVars, armVars, bpc, voltage, snapVars, fineVars, doomed>>

\* ------------------------------------------------------- BatteryMonitor
\* Battery monitoring thresholds, in tenths of a volt
BATTERY_LOW_VOLTAGE == 110
BATTERY_CRITICAL_VOLTAGE == 105

\* What read_voltage() can return: None, or the ADC's voltage (tenths).
Voltages == {<<>>, <<100>>, <<107>>, <<120>>}

\* run(): one poll, up to time.sleep(BATTERY_POLL_INTERVAL_S)
BatteryPoll(v) ==
    /\ bpc = "poll"
    /\ voltage' = v
    /\ LET s1 == update_battery(sm, v) IN
        sm' = IF v = <<>> THEN set_error(s1, "battery", "read failed", {})
              ELSE IF v[1] < BATTERY_CRITICAL_VOLTAGE
                THEN set_error(s1, "battery", "critical voltage", {})
              ELSE IF v[1] < BATTERY_LOW_VOLTAGE
                THEN set_error(s1, "battery", "low voltage", {})
              ELSE update_component(s1, "battery", "OK")
    /\ bpc' = "sleep"
    /\ UNCHANGED <<lastCall, nCalls, envVars, motorVars, robotVars, histVars, stop_event,
                   sprayVars, dbVars, armVars, lastDist, snapVars, fineVars, doomed>>

\* the sleep ends and the loop condition is tested
BatterySleep ==
    /\ bpc = "sleep"
    /\ bpc' = IF "battery" \in stop_event THEN "exited" ELSE "poll"
    /\ UNCHANGED <<statusVars, envVars, motorVars, robotVars, histVars, stop_event,
                   sprayVars, dbVars, armVars, voltage, lastDist, snapVars, fineVars, doomed>>

\* The two sensors and the status register.
NextSensors ==
    \/ \E echo \in Echoes : UsGetDistance(echo)
    \/ \E v \in Voltages : BatteryPoll(v)
    \/ BatterySleep

SpecSensors == Init /\ [][NextSensors]_vars

\* ---------------------------------------------- the activity log alone
\* DBLogger.log() called directly (the spec's record()), at most MaxRecords
\* entries queued or committed.
LogCall(ml) ==
    /\ Len(table) + Len(db_q) < MaxRecords
    /\ db_q' = log(db_q, ml, DEFAULT_SPRAY_AREA_M2, <<>>, <<>>, ml \div PUMP_FLOW_ML_PER_S, now)
    /\ UNCHANGED <<auxVars, statusVars, envVars, motorVars, robotVars, histVars, stop_event,
                   sprayVars, dbpc, table, now, lastReport>>

NextLog ==
    \/ \E ml \in {10, 50} : LogCall(ml)
    \/ DbInsert
    \/ DbExit
    \/ \E day \in {<<>>} \cup {<<d>> : d \in 0..DateOf(MaxClock)} : DailyReport(day)
    \/ Tick
    \/ Cleanup

SpecLog == Init /\ [][NextLog]_vars

\* ------------------------------------------------- workers and cleanup()
\* One step of each worker thread.
MotorStep ==
    MotorDisable \/ MotorDirection \/ MotorForwardFor \/ MotorForwardDone
        \/ MotorStallCheck \/ MotorExit
ArmStep == ArmGet \/ ArmElbow \/ ArmDone \/ ArmExit
SprayStep == SprayGet \/ SprayHold \/ SprayDone \/ SprayExit
DbStep == DbInsert \/ DbExit
BatteryStep == BatteryPoll(<<120>>) \/ BatterySleep

AllExited ==
    /\ mpc = "exited" /\ apc = "exited" /\ spc = "exited"
    /\ bpc = "exited" /\ dbpc = "exited"

\* The five workers, fed through their put methods, and cleanup().
NextCleanup ==
    \/ \E cmd \in {"FWD_T", "DISABLE"} : MotorPut(cmd)
    \/ \E t \in {<<240, 0>>, <<240, 240>>} : MoveTo(t[1], t[2])
    \/ SprayCall(<<>>, <<>>, << <<>>, <<>> >>)
    \/ MotorDisable
    \/ MotorDirection
    \/ MotorForwardFor
    \/ MotorForwardDone
    \/ MotorStallCheck
    \/ MotorExit
    \/ ArmGet
    \/ ArmElbow
    \/ ArmDone
    \/ ArmExit
    \/ SprayGet
    \/ SprayHold
    \/ SprayDone
    \/ SprayExit
    \/ DbInsert
    \/ DbExit
    \/ BatteryPoll(<<120>>)
    \/ BatterySleep
    \/ Cleanup

\* Every thread that can take a step is scheduled again and again.
SpecCleanup ==
    /\ Init /\ [][NextCleanup]_vars
    /\ WF_vars(MotorStep) /\ WF_vars(ArmStep) /\ WF_vars(SprayStep)
    /\ WF_vars(DbStep) /\ WF_vars(BatteryStep)

\* ------------------------------------------------ faults inside a worker
\* Where a worker is after an except branch of its loop body has run.
AfterFault_Propagates(thread) == "exited"
AfterFault(thread) == LoopTop(thread)

\* a direction command whose GPIO.output raises inside _set: _set's own
\* except logs it, no pin is written, update_op is skipped
MotorDirectionRaises ==
    /\ mpc = "idle" /\ cmd_q /= <<>> /\ Head(cmd_q) \in DirectionCmds
    /\ cmd_q' = Tail(cmd_q)
    /\ mcmd' = Head(cmd_q)
    /\ mstart' = enc_counts
    /\ mpc' = "stall_wait"
    /\ UNCHANGED <<auxVars, statusVars, envVars, enabled, enc_counts, pins, motor_enable,
                   robotVars, histVars, stop_event, sprayVars, dbVars>>

\* FWD_T: time.sleep(cmd[1]) raises (a negative or non-numeric t); the
\* worker's except logs it; _set(0, 0, 0, 0) and the stall check are skipped
MotorForwardForRaises ==
    /\ mpc = "fwd_hold"
    /\ mpc' = AfterFault("motors")
    /\ mcmd' = None
    /\ UNCHANGED <<auxVars, statusVars, envVars, cmd_q, enabled, enc_counts, pins, motor_enable,
                   mstart, robotVars, histVars, stop_event, sprayVars, dbVars>>

\* the INSERT or the commit raises: the item is logged and dropped
DbInsertFails ==
    /\ dbpc = "idle" /\ db_q /= <<>>
    /\ db_q' = Tail(db_q)
    /\ dbpc' = AfterFault("db")
    /\ UNCHANGED <<auxVars, statusVars, envVars, motorVars, robotVars, histVars, stop_event,
                   sprayVars, table, now, lastReport>>

\* The workers with faults in their command processing; no stop signal.
NextFaults ==
    \/ \E cmd \in {"FWD", "FWD_T", "STOP"} : MotorPut(cmd)
    \/ \E t \in {<<240, 0>>, <<240, 240>>} : MoveTo(t[1], t[2])
    \/ SprayCall(<<>>, <<>>, << <<>>, <<>> >>)
    \/ MotorDirection
    \/ MotorDirectionRaises
    \/ MotorForwardFor
    \/ MotorForwardDone
    \/ MotorForwardForRaises
    \/ MotorStallCheck
    \/ ArmGet
    \/ ArmElbow
    \/ ArmDone
    \/ SprayGet
    \/ SprayHold
    \/ SprayDone
    \/ DbInsert
    \/ DbInsertFails

SpecFaults == Init /\ [][NextFaults]_vars

\* The three command workers running, fed through their put methods.
NextWorkers ==
    \/ \E side \in {"L", "R"}, b \in {0, 1} : EncEdge(side, b)
    \/ \E cmd \in PublicCmds : MotorPut(cmd)
    \/ \E t \in {<<240, 0>>, <<0, 120>>, <<240, 240>>} : MoveTo(t[1], t[2])
    \/ \E d \in {<<>>, <<100>>} : SprayCall(d, <<>>, << <<>>, <<>> >>)
    \/ MotorDisable
    \/ MotorDirection
    \/ MotorForwardFor
    \/ MotorForwardDone
    \/ MotorStallCheck
    \/ ArmGet
    \/ ArmElbow
    \/ ArmDone
    \/ SprayGet
    \/ SprayHold
    \/ SprayDone
    \/ DbInsert

SpecWorkers == Init /\ [][NextWorkers]_vars

\* start_robot() and the arm worker: the two threads that call _move_pwm.
NextArmStart ==
    \/ \E side \in {"L", "R"}, b \in {0, 1} : EncEdge(side, b)
    \/ StartRobot
    \/ StartSample
    \/ StartEnabled
    \/ StartCenterElbow
    \/ StartDone
    \/ StartCenterRaises
    \/ \E t \in {<<120, 0>>, <<240, 240>>} : MoveTo(t[1], t[2])
    \/ ArmGet
    \/ ArmElbow
    \/ ArmDone

SpecArmStart == Init /\ [][NextArmStart]_vars

\* stop_robot() with the sprayer and the motor worker running.
NextStop ==
    \/ \E d \in {<<>>, <<2>>} : SprayCall(d, <<>>, << <<>>, <<>> >>)
    \/ SprayGet
    \/ SprayHold
    \/ SprayDone
    \/ DbInsert
    \/ StopRobot
    \/ StopDrainOne
    \/ StopDisable
    \/ StopCheck
    \/ MotorDisable
    \/ MotorDirection
    \/ MotorStallCheck

SpecStop == Init /\ [][NextStop]_vars

\* ------------------------------------------------------------------ claims

\* C1: if power was ON when stop_robot() was called and the call returned
\* ok:false, power is still ON once the motor worker has processed every
\* command that call enqueued.
C1_FailedStopLeavesPower ==
    (stopFailedOn /\ Pending("DISABLE") = 0) => sm.status.power = "ON"

\* C2: stop_robot() returns "motors did not stop" only when the DISABLE it
\* enqueued has been processed and enabled is still true; begun on an enabled
\* robot it returns ok:true and power is OFF.
C2_StopVerifiesDisable ==
    [][(rpc = "stop_check" /\ rpc' = "idle") =>
          /\ (result' = StopFail => (Pending("DISABLE") = 0 /\ enabled))
          /\ (atCall.enabled => (result' = StopOk /\ sm'.status.power = "OFF"))]_vars

\* C3: whenever power is ON, a start_robot() call has returned ok:true since
\* power was last OFF.
C3_PowerOnOnlyAfterStartOk ==
    sm.status.power = "ON" => startOk

\* C4: when enable()'s self-test fails, start_robot() returns ok:false and
\* makes no servo move in that call.
C4_FailedSelfTestNoArmMove ==
    enableFailed =>
        /\ centerMoves = 0
        /\ rpc \in {"idle", "stop_drain", "stop_check"}
        /\ (result.call = "start" => result = StartFailMotors)

C4_Witness ==
    /\ enableFailed /\ result = StartFailMotors /\ rpc = "idle"
    /\ base_pwm = "PWM"

\* C6: when the stall check that follows a movement command finds both wheels
\* below MOTOR_STALL_MIN_TICKS, the worker deasserts the four drive pins and
\* the status then shows motors ERROR with last_error "stall detected".
C6_StallStopsAndMarksError ==
    [][(mpc = "stall_wait" /\ mpc' = "idle" /\ mcmd \in MovementCmds
            /\ check_stall(mstart, enc_counts)) =>
          /\ pins' = AllLow
          /\ sm'.status.last_error.message = "stall detected"
          /\ sm'.status.components["motors"] = "ERROR"]_vars

\* C7: after enable() returned True the enabled flag is true until a DISABLE
\* is processed; after it returned False the flag is false once the ENABLE
\* command has been processed.
C7_EnableVerdictDecidesFlag ==
    /\ enableOk => enabled
    /\ (enableFailed /\ Pending("ENABLE") = 0) => ~enabled
\* C8: spray() resolves the duration (1 s by default, volume / flow rate for
\* a volume alone, a given duration first); a result <= 0 returns an error,
\* records a sprayer error and enqueues nothing; otherwise exactly one SPRAY
\* command is enqueued and {queued, duration} is returned.
C8_SprayResolvesDuration ==
    [][lastSpray'.n /= lastSpray.n =>
        LET d == lastSpray'.duration_s
            v == lastSpray'.volume_ml
            r == IF d /= <<>> THEN d[1]
                 ELSE IF v /= <<>> THEN v[1] \div PUMP_FLOW_ML_PER_S
                 ELSE 1
        IN IF r <= 0
             THEN /\ lastSpray'.ret.status = "error"
                  /\ spray_q' = spray_q
                  /\ sm'.status.last_error.component = "sprayer"
                  /\ sm'.error_pin = 1
             ELSE /\ lastSpray'.ret.status = "queued"
                  /\ lastSpray'.ret.duration_s = <<r>>
                  /\ Len(spray_q') = Len(spray_q) + 1
                  /\ SubSeq(spray_q', 1, Len(spray_q)) = spray_q
                  /\ spray_q'[Len(spray_q')].dur = r
                  /\ sm' = sm
                  /\ <<spc', sprayer_pin'>> = <<spc, sprayer_pin>>]_vars

C8_Witness ==
    /\ lastSpray.duration_s = <<>> /\ lastSpray.volume_ml = <<50>>
    /\ lastSpray.ret = [status |-> "queued", duration_s |-> <<5>>, message |-> None]
    /\ Len(spray_q) = 1 /\ spray_q[1].dur = 5 /\ spc = "idle"

\* C9: the pump is asserted for at most SPRAY_MAX_DURATION; the clip error is
\* raised exactly when the requested duration exceeds it; the entry logged
\* carries the clamped duration and its millilitres; and the worker returns to
\* its queue.
C9_SprayClamped ==
    /\ [](sprayer_pin = 1 => elapsed <= SPRAY_MAX_DURATION)
    /\ [][(spc = "idle" /\ spc' = "hold") =>
            IF Head(spray_q).dur > SPRAY_MAX_DURATION
              THEN /\ sm'.status.last_error =
                         [component |-> "sprayer", message |-> "excessive duration clipped",
                          causes |-> {"bad command"}]
                   /\ sm'.error_pin = 1
              ELSE sm' = sm]_vars
    /\ [][(spc = "hold" /\ spc' /= "hold") =>
            LET c == IF scmd.dur > SPRAY_MAX_DURATION THEN SPRAY_MAX_DURATION ELSE scmd.dur IN
            /\ sprayer_pin' = 0
            /\ Len(db_q') = Len(db_q) + 1
            /\ db_q'[Len(db_q')].duration_s = c
            /\ db_q'[Len(db_q')].ml_used = c * PUMP_FLOW_ML_PER_S
            /\ ("sprayer" \notin stop_event => spc' = "idle")]_vars

\* a clipped spray has run and been logged, and the worker is in a later one
C9_Witness ==
    /\ spc = "hold" /\ scmd.dur = 1 /\ sprayer_pin = 1
    /\ sm.status.last_error.message = "excessive duration clipped"
    /\ \E i \in 1..Len(db_q) : db_q[i].duration_s = 30 /\ db_q[i].ml_used = 300

\* C10: daily_report() for today returns as many entries as log() was called
\* before it (today).
C10_ReportHoldsEveryRecord ==
    (lastReport.n > 0 /\ lastReport.today) => Len(lastReport.entries) = lastReport.recorded

\* C11: the writer commits entries in the order log() was called, each
\* stamped with the clock at its commit, so the table only grows at its end
\* and its timestamps never decrease; daily_report() returns its entries in
\* non-decreasing timestamp order with total_ml the sum of their ml_used.
C11_LogOrdered ==
    /\ [](\A i \in 1..(Len(table) - 1) : table[i].ts <= table[i + 1].ts)
    /\ [][LET all == [i \in 1..Len(table) |-> table[i].item] \o db_q
              all2 == [i \in 1..Len(table') |-> table'[i].item] \o db_q'
          IN \/ all2 = all
             \/ Len(all2) = Len(all) + 1 /\ SubSeq(all2, 1, Len(all)) = all]_vars
    /\ [][table' /= table =>
            /\ Len(table') = Len(table) + 1
            /\ SubSeq(table', 1, Len(table)) = table
            /\ table'[Len(table')] = [ts |-> now, item |-> Head(db_q)]]_vars
    /\ [](lastReport.n > 0 =>
            LET e == lastReport.entries
                S[i \in 0..Len(e)] == IF i = 0 THEN 0 ELSE S[i - 1] + e[i].item.ml_used
            IN /\ \A i \in 1..(Len(e) - 1) : e[i].ts <= e[i + 1].ts
               /\ \A i \in 1..Len(e) : DateOf(e[i].ts) = lastReport.date
               /\ lastReport.total_ml = S[Len(e)])

\* a report of two entries committed at different instants, one of them
\* later than it was enqueued
C11_Witness ==
    /\ lastReport.n > 0 /\ Len(lastReport.entries) = 2
    /\ lastReport.entries[1].ts < lastReport.entries[2].ts
    /\ lastReport.entries[2].ts > lastReport.entries[2].item.at
    /\ lastReport.total_ml = 60

\* C12: for every target with |L1 - L2| <= hypot(x, y) <= L1 + L2 ik_2link
\* returns a shoulder and an elbow servo angle in [0, 180]; for every other
\* target it fails with "target unreachable".
C12_IkAnglesInServoRange ==
    [][(apc = "idle" /\ arm_q /= <<>> /\ arm_q' = Tail(arm_q)) =>
          LET x == Head(arm_q)[1]
              y == Head(arm_q)[2]
              r2 == x * x + y * y
          IN IF (L1 - L2) * (L1 - L2) <= r2 /\ r2 <= (L1 + L2) * (L1 + L2)
               THEN /\ ang'.shoulder \in 0..180
                    /\ ang'.elbow \in 0..180
               ELSE sm'.status.last_error.message = "IK error: target unreachable"]_vars

\* C13: move_to() only enqueues the target and the caller sees no error; when
\* the worker finds the target unreachable it drives no servo, records an arm
\* error (last_error and health "arm", error pin high) and goes back to its
\* queue with the later targets untouched.
C13_UnreachableStaysInWorker ==
    /\ [][Len(arm_q') = Len(arm_q) + 1 =>
            /\ SubSeq(arm_q', 1, Len(arm_q)) = arm_q
            /\ <<sm', apc', pwm_duty', result'>> = <<sm, apc, pwm_duty, result>>]_vars
    /\ [][(apc = "idle" /\ arm_q /= <<>> /\ arm_q' = Tail(arm_q)
             /\ Unreachable(Head(arm_q)[1], Head(arm_q)[2])) =>
            /\ pwm_duty' = pwm_duty
            /\ sm'.status.last_error.component = "arm"
            /\ sm'.status.components["arm"] = "ERROR"
            /\ sm'.error_pin = 1
            /\ apc' = "idle"]_vars

\* after an unreachable target the worker is moving the shoulder to the next
C13_Witness ==
    /\ apc = "shoulder" /\ base_pwm = "PWM" /\ pwm_duty.shoulder > 0
    /\ sm.status.last_error.message = "IK error: target unreachable"
    /\ sm.status.components["arm"] = "ERROR"

\* C14: get_distance_cm() with no echo returns no reading and leaves
\* ultrasonic health ERROR with last_error causes including "wiring"; with an
\* echo it returns a distance and ultrasonic health is OK.
C14_NoEchoMarksError ==
    [][lastDist'.n /= lastDist.n =>
          IF ~lastDist'.echo
            THEN /\ lastDist'.ret = <<>>
                 /\ sm'.status.last_error.component = "ultrasonic"
                 /\ "wiring" \in sm'.status.last_error.causes
                 /\ sm'.status.components["ultrasonic"] = "ERROR"
            ELSE /\ lastDist'.ret /= <<>>
                 /\ sm'.status.components["ultrasonic"] = "OK"]_vars

\* C16: a poll raises "read failed", a critical or a low-battery error by the
\* voltage read, most severe first, and leaves battery health not OK below
\* LOW; a poll at or above LOW leaves battery health OK, and when the register
\* reported a battery error before it, it reports none after (last_error is
\* not the battery's, the error pin is low).
C16_BatteryClassified ==
    [][(bpc = "poll" /\ bpc' = "sleep") =>
          LET v == voltage' IN
          IF v = <<>> THEN sm'.status.last_error.message = "read failed"
          ELSE IF v[1] < BATTERY_LOW_VOLTAGE
            THEN /\ sm'.status.last_error.message =
                      (IF v[1] < BATTERY_CRITICAL_VOLTAGE THEN "critical voltage"
                       ELSE "low voltage")
                 /\ sm'.status.components["battery"] /= "OK"
          ELSE /\ sm'.status.components["battery"] = "OK"
               /\ sm.status.last_error.component = "battery" =>
                      /\ sm'.status.last_error.component /= "battery"
                      /\ sm'.error_pin = 0]_vars

\* C15: what a snapshot returned by get_snapshot() shows never changes after
\* the return, whatever mutators are called, the component health mapping
\* included.
C15_SnapshotImmutable ==
    snapshot /= <<>> => Observe(snapshot[1]) = snapValue[1]

\* C17: cleanup() sets the stop event of every worker (motor, arm, sprayer,
\* battery monitor, log writer); a second cleanup() changes nothing; and once
\* the events are set every worker loop terminates, whatever it was doing.
C17_CleanupStopsWorkers ==
    /\ [][stop_event' /= stop_event => stop_event' = Threads]_vars
    /\ [](stop_event = Threads => ~ENABLED <<Cleanup>>_vars)
    /\ (stop_event = Threads) ~> AllExited

\* every worker has left its loop, the sprayer out of a hold cut short and the
\* motor worker after a command
C17_Witness ==
    /\ AllExited /\ stop_event = Threads
    /\ scmd.dur = 1 /\ elapsed < dur /\ db_q = <<>> /\ Len(table) = 1
    /\ sm.status.last_error.message = "stall detected"

C19_ServoMovesNeverOverlap ==
    ~(rpc \in {"center_shoulder", "center_elbow"} /\ apc \in {"shoulder", "elbow"})

\* C20: a spray that was in the sprayer queue when stop_robot() began to drain
\* it is never started by the sprayer worker, and stop_robot() leaves a spray
\* in progress alone.
C20_StopDiscardsQueuedSprays ==
    /\ [][(spc = "idle" /\ spc' = "hold") => doomed = 0]_vars
    /\ [][(rpc' /= rpc /\ spc = "hold") =>
            <<spc', scmd', dur', elapsed', sprayer_pin'>> =
                <<spc, scmd, dur, elapsed, sprayer_pin>>]_vars

\* C21: with no stop signal given no worker ever leaves its loop; after a
\* command whose processing raised (a sleep or GPIO fault in the motor worker,
\* an IK failure in the arm worker, a failed INSERT in the log writer) the
\* worker is back at its queue with the later commands still in it.
C21_FaultKeepsWorkerAlive ==
    /\ [](stop_event = {} =>
            /\ mpc /= "exited" /\ apc /= "exited" /\ spc /= "exited"
            /\ dbpc /= "exited")
    /\ [][(mpc = "fwd_hold" /\ mpc' \notin {"fwd_hold", "stall_wait"}) =>
            mpc' = "idle" /\ cmd_q' = cmd_q]_vars
    /\ [][(apc = "idle" /\ arm_q /= <<>> /\ arm_q' = Tail(arm_q) /\ apc' /= "shoulder") =>
            apc' = "idle"]_vars
    /\ [][(db_q /= <<>> /\ db_q' = Tail(db_q) /\ table' = table) => dbpc' = "idle"]_vars

\* the writer has dropped one entry on a failed INSERT and committed the next
C21_Witness ==
    /\ Len(table) = 1 /\ db_q = <<>> /\ dbpc = "idle"
    /\ lastSpray.n = 2 /\ spray_q = <<>> /\ spc = "idle"

\* C22: when the worker has finished a DISABLE the four drive pins and the
\* enable line are low and enabled is false; and DISABLE leaves none of its
\* effect to be applied behind commands that were enqueued after it.
C22_DisableIsOneCommand ==
    /\ [][(mcmd = "DISABLE" /\ mpc = "stall_wait" /\ mpc' = "idle") =>
            pins' = AllLow /\ motor_enable' = 0 /\ ~enabled']_vars
    /\ [][(mpc = "idle" /\ mpc' = "stall_wait" /\ mcmd' = "DISABLE"
             /\ Tail(cmd_q) /= <<>>) =>
            cmd_q' = Tail(cmd_q)]_vars

\* C24: the stall check follows movement commands only, and "stall detected"
\* is recorded only for a movement command whose drive pins are still
\* asserted.
C24_StallOnlyAfterMovement ==
    /\ [][(mpc = "idle" /\ mpc' = "stall_wait") => mcmd' \in MovementCmds]_vars
    /\ [][(mpc = "stall_wait" /\ mpc' = "idle"
             /\ sm'.status.last_error.message = "stall detected" /\ sm' /= sm) =>
            (mcmd \in MovementCmds /\ pins /= AllLow)]_vars

\* C29: whenever a drive pin is high the enabled flag is true.
C29_DrivePinsOnlyWhenEnabled ==
    pins /= AllLow => enabled

\* ------------------------------- Ultrasonic.get_distance_cm(), poll by poll
\* The 0.02 s timeout, in evaluations of a loop condition: one evaluation and
\* one loop body take one unit of time. A poll takes microseconds, so the
\* timeout is at least two of them.
UsTimeoutPolls == 2

\* The echo line changes level whenever the environment likes.
UsEcho ==
    /\ us' = [us EXCEPT !.echo = 1 - us.echo]
    /\ UNCHANGED <<armVars, sensorVars, snapVars, doomed, workerEnableFailed, lockVars,
                   statusVars, envVars, motorVars, robotVars, histVars, stop_event,
                   sprayVars, dbVars>>

\* The trigger pulse; pulse_start = time.time(); timeout_at = pulse_start + timeout
UsCall ==
    /\ us.pc = "idle"
    /\ us' = [us EXCEPT !.pc = "wait_high", !.left = UsTimeoutPolls, !.since = 0,
                        !.ret = <<>>]
    /\ UNCHANGED <<armVars, sensorVars, snapVars, doomed, workerEnableFailed, lockVars,
                   statusVars, envVars, motorVars, robotVars, histVars, stop_event,
                   sprayVars, dbVars>>

\* while GPIO.input(US_ECHO) == 0 and time.time() < timeout_at: one evaluation,
\* and on leaving the loop the test time.time() >= timeout_at
UsPollLow ==
    /\ us.pc = "wait_high"
    /\ IF us.echo = 0 /\ us.left > 0
         THEN /\ us' = [us EXCEPT !.left = us.left - 1]
              /\ sm' = sm
         ELSE IF us.left = 0
                THEN /\ sm' = set_error(sm, "ultrasonic", "no echo", {"wiring", "power"})
                     /\ us' = [us EXCEPT !.pc = "idle", !.ret = <<None>>]
                ELSE /\ us' = [us EXCEPT !.pc = "wait_low", !.since = 0]
                     /\ sm' = sm
    /\ UNCHANGED <<armVars, sensorVars, snapVars, doomed, workerEnableFailed, lockVars,
                   lastCall, nCalls, envVars, motorVars, robotVars, histVars, stop_event,
                   sprayVars, dbVars>>

\* while GPIO.input(US_ECHO) == 1 and (time.time() - pulse_end) < timeout:
\*     pulse_end = time.time()
\* us.since is time.time() - pulse_end at the evaluation: the body sets
\* pulse_end to the current time and the next evaluation comes one unit later.
UsPollHigh ==
    /\ us.pc = "wait_low"
    /\ IF us.echo = 1 /\ us.since < UsTimeoutPolls
         THEN /\ us' = [us EXCEPT !.since = 1]
              /\ sm' = sm
         ELSE /\ sm' = update_component(sm, "ultrasonic", "OK")
              /\ us' = [us EXCEPT !.pc = "idle", !.ret = <<"dist_cm">>]
    /\ UNCHANGED <<armVars, sensorVars, snapVars, doomed, workerEnableFailed, lockVars,
                   lastCall, nCalls, envVars, motorVars, robotVars, histVars, stop_event,
                   sprayVars, dbVars>>

UsStep == UsPollLow \/ UsPollHigh

NextEcho ==
    \/ UsEcho
    \/ UsCall
    \/ UsPollLow
    \/ UsPollHigh
    \/ \E v \in Voltages : BatteryPoll(v)
    \/ BatterySleep

\* The calling thread keeps running; the echo line owes nothing.
SpecEcho == Init /\ [][NextEcho]_vars /\ WF_vars(UsStep)

\* C26: every get_distance_cm() call returns, whatever the echo line does.
C26_GetDistanceTerminates ==
    (us.pc /= "idle") ~> (us.pc = "idle")

\* C23: once the worker's ENABLE check has failed, enabled stays False until
\* another ENABLE command is put on the queue.
C23_FailedEnableStaysDisabled ==
    workerEnableFailed => ~enabled

\* C27: with the sprayer's stop event set during a hold, the hold does not go
\* on: the worker's next step deasserts the pump and leaves the loop; and once
\* the stop event is set the pump is eventually low and stays low for ever.
C27_StopInterruptsSpray ==
    /\ [][("sprayer" \in stop_event /\ spc = "hold" /\ <<spc, elapsed, sprayer_pin>>' /= <<spc, elapsed, sprayer_pin>>) =>
            (sprayer_pin' = 0 /\ spc' = "exited" /\ elapsed' = elapsed)]_vars
    /\ []("sprayer" \in stop_event => <>[](sprayer_pin = 0))

\* the sprayer left a hold that the stop event cut short, the pump is low
C27_Witness ==
    /\ "sprayer" \in stop_event /\ spc = "exited" /\ sprayer_pin = 0
    /\ scmd /= NoCmd /\ elapsed < dur

\* ------------------------------------- MotorController._set, pin by pin
\* Where the worker is inside _set: before its i-th GPIO.output.
SetPc(i) == <<"set_1", "set_2", "set_3", "set_4">>[i]

\* cmd in FWD, BWD, LEFT, RIGHT, STOP is taken and _set(...) is entered
SetBegin ==
    /\ mpc = "idle" /\ cmd_q /= <<>> /\ Head(cmd_q) \in DirectionCmds
    /\ cmd_q' = Tail(cmd_q)
    /\ mcmd' = Head(cmd_q)
    /\ mpc' = SetPc(1)
    /\ UNCHANGED <<auxVars, statusVars, envVars, enabled, enc_counts, pins, motor_enable,
                   mstart, robotVars, histVars, stop_event, sprayVars, dbVars>>

\* GPIO.output(LEFT_FWD, lf); GPIO.output(LEFT_BWD, lb);
\* GPIO.output(RIGHT_FWD, rf); GPIO.output(RIGHT_BWD, rb): one of the four,
\* and after the last one update_op and check_stall's first sample
SetWrite(i) ==
    /\ mpc = SetPc(i)
    /\ pins' = [pins EXCEPT ![i] = Direction(mcmd)[i]]
    /\ IF i < 4
         THEN /\ mpc' = SetPc(i + 1)
              /\ UNCHANGED <<sm, mstart>>
         ELSE /\ sm' = update_op(sm, MotorsOp(Direction(mcmd)))
              /\ mstart' = enc_counts
              /\ mpc' = "stall_wait"
    /\ UNCHANGED <<auxVars, lastCall, nCalls, envVars, cmd_q, enabled, enc_counts,
                   motor_enable, mcmd, robotVars, histVars, stop_event, sprayVars, dbVars>>

NextPins ==
    \/ \E side \in {"L", "R"}, b \in {0, 1} : EncEdge(side, b)
    \/ \E cmd \in DirectionCmds : MotorPut(cmd)
    \/ SetBegin
    \/ \E i \in 1..4 : SetWrite(i)
    \/ MotorStallCheck

SpecPins == Init /\ [][NextPins]_vars

\* C30: LEFT_FWD and LEFT_BWD are never both high, and neither are RIGHT_FWD
\* and RIGHT_BWD, the states between the four pin writes of _set included.
C30_NoOpposingPins ==
    /\ ~(pins[1] = 1 /\ pins[2] = 1)
    /\ ~(pins[3] = 1 /\ pins[4] = 1)

\* ------------------------------------------------------------ the locks
\* StatusManager.lock, the module's _status_lock, MotorController.enc_lock and
\* Robot._lock.  Each operation is the sequence of its lock events, in the
\* order of its "with" blocks, with the accesses to enc_counts in between;
\* what the status methods write is modelled by the operators above.
Locks == {"status", "file", "enc", "robot"}
Acq(l) == <<"acq", l>>
Rel(l) == <<"rel", l>>
Do(x) == <<"do", x>>

\* set_error, clear_error, update_component, update_battery, update_op and
\* set_power: "with self.lock:" and inside it write_status_file's
\* "with _status_lock:"
StatusWrite_FileFirst == <<Acq("file"), Acq("status"), Rel("status"), Rel("file")>>
StatusWrite == <<Acq("status"), Acq("file"), Rel("file"), Rel("status")>>

\* get_snapshot: "with self.lock:" alone
GetSnapshotOp == <<Acq("status"), Rel("status")>>

\* _enc_l, _enc_r: "with self.enc_lock: self.enc_counts[side] += ...", a load
\* and a store of the counter
EncEdgeOp_NoLock == <<Do("load"), Do("store")>>
EncEdgeOp == <<Acq("enc"), Do("load"), Do("store"), Rel("enc")>>

\* get_encoders: "with self.enc_lock: return dict(self.enc_counts)", the copy
\* reading one key after the other
GetEncodersOp == <<Acq("enc"), Do("copyL"), Do("copyR"), Rel("enc"), Do("return")>>

\* reset_encoders: "with self.enc_lock: self.enc_counts = {"L": 0, "R": 0}"
ResetEncodersOp == <<Acq("enc"), Do("zero"), Rel("enc")>>

\* check_stall: get_encoders(), the sleep, get_encoders()
CheckStallOp == GetEncodersOp \o GetEncodersOp

\* start_robot: "with self._lock:", enable() with its two samples, then
\* set_error or set_power
StartRobotOp == <<Acq("robot")>> \o GetEncodersOp \o GetEncodersOp \o StatusWrite
                    \o <<Rel("robot")>>

\* stop_robot: "with self._lock:", then set_error or set_power
StopRobotOp_FileFirst == <<Acq("robot")>> \o StatusWrite_FileFirst \o <<Rel("robot")>>
StopRobotOp == <<Acq("robot")>> \o StatusWrite \o <<Rel("robot")>>

Script(op) ==
    CASE op = "status_write"   -> StatusWrite
      [] op = "get_snapshot"   -> GetSnapshotOp
      [] op = "enc_edge"       -> EncEdgeOp
      [] op = "get_encoders"   -> GetEncodersOp
      [] op = "reset_encoders" -> ResetEncodersOp
      [] op = "check_stall"    -> CheckStallOp
      [] op = "start_robot"    -> StartRobotOp
      [] op = "stop_robot"     -> StopRobotOp
      [] OTHER                 -> <<>>

\* What each thread runs: the callbacks their edge; the motor worker its
\* status updates and stall checks; a request thread the public API.
OpsOf(t) ==
    CASE t \in {"cbL", "cbR"} -> {"enc_edge"}
      [] t = "worker"         -> {"status_write", "check_stall"}
      [] t = "api"            -> {"start_robot", "stop_robot", "get_snapshot",
                                  "get_encoders", "reset_encoders"}

SideOf(t) == IF t = "cbL" THEN "L" ELSE "R"

\* The locks a thread holds after the events it has completed.
HeldBy(t) ==
    LET sc == Script(thr[t].op) IN
    {l \in Locks : \E j \in 1..thr[t].i :
        /\ sc[j] = Acq(l)
        /\ \A k \in (j + 1)..thr[t].i : sc[k] /= Rel(l)}

Free(l) == \A t \in LockThreads : l \notin HeldBy(t)

\* The event a thread is about to execute.
NextEvent(t) == Script(thr[t].op)[thr[t].i + 1]

Blocked(t) ==
    /\ thr[t].op /= None
    /\ NextEvent(t)[1] = "acq"
    /\ ~Free(NextEvent(t)[2])

Holder(l) == CHOOSE t \in LockThreads : l \in HeldBy(t)

\* A thread enters an operation; a callback has read b before taking the lock.
LockBegin(t, op, b) ==
    /\ thr[t].op = None
    /\ op \in OpsOf(t)
    /\ IF op = "enc_edge"
         THEN /\ nEdges < MaxEdges
              /\ nEdges' = nEdges + 1
         ELSE /\ b = 1
              /\ nEdges' = nEdges
    /\ thr' = [thr EXCEPT ![t] = [op |-> op, i |-> 0,
                                   d |-> IF b = 1 THEN 1 ELSE 0 - 1,
                                   tmp |-> ZeroCounts]]
    /\ UNCHANGED <<armVars, sensorVars, snapVars, doomed, workerEnableFailed, net, got, us,
                   statusVars, motorVars, robotVars, histVars, stop_event, sprayVars,
                   dbVars>>

\* A thread executes the next event of its operation.
LockStep(t) ==
    /\ thr[t].op /= None
    /\ ~Blocked(t)
    /\ LET e == NextEvent(t)
           last == thr[t].i + 1 = Len(Script(thr[t].op))
           tmp2 == CASE e = Do("load")  -> [thr[t].tmp EXCEPT ![SideOf(t)] = enc_counts[SideOf(t)]]
                     [] e = Do("copyL") -> [thr[t].tmp EXCEPT !.L = enc_counts.L]
                     [] e = Do("copyR") -> [thr[t].tmp EXCEPT !.R = enc_counts.R]
                     [] OTHER           -> thr[t].tmp
       IN /\ thr' = [thr EXCEPT ![t] = IF last THEN NoOp
                                       ELSE [@ EXCEPT !.i = @ + 1, !.tmp = tmp2]]
          /\ enc_counts' =
                CASE e = Do("store") -> [enc_counts EXCEPT ![SideOf(t)] =
                                            thr[t].tmp[SideOf(t)] + thr[t].d]
                  [] e = Do("zero")  -> ZeroCounts
                  [] OTHER           -> enc_counts
          /\ net' =
                CASE e = Do("store") -> [net EXCEPT ![SideOf(t)] = @ + thr[t].d]
                  [] e = Do("zero")  -> ZeroCounts
                  [] OTHER           -> net
          /\ got' = IF e = Do("return") THEN thr[t].tmp ELSE got
    /\ UNCHANGED <<armVars, sensorVars, snapVars, doomed, workerEnableFailed, us,
                   statusVars, envVars, cmd_q, enabled, pins, motor_enable, mpc, mcmd,
                   mstart, robotVars, histVars, stop_event, sprayVars, dbVars>>

NextLocks ==
    \/ \E t \in LockThreads, op \in {"status_write", "get_snapshot", "enc_edge",
                                       "get_encoders", "reset_encoders", "check_stall",
                                       "start_robot", "stop_robot"}, b \in {0, 1} :
            LockBegin(t, op, b)
    \/ \E t \in LockThreads : LockStep(t)

SpecLocks == Init /\ [][NextLocks]_vars

\* A blocked thread waits for the holder of its lock; following the holders
\* for at most n steps leads to a thread that can run.
RECURSIVE CanProceed(_, _)
CanProceed(t, n) ==
    IF ~Blocked(t) THEN TRUE
    ELSE IF n = 0 THEN FALSE
    ELSE CanProceed(Holder(NextEvent(t)[2]), n - 1)

C28_EncoderUpdatesAtomic ==
    /\ [][\A t \in {"cbL", "cbR"} :
            (thr[t].op = "enc_edge" /\ thr'[t] /= thr[t] /\ NextEvent(t) = Do("store")) =>
                enc_counts' = [enc_counts EXCEPT ![SideOf(t)] = @ + thr[t].d]]_vars
    /\ [][enc_counts' /= enc_counts =>
            \E t \in LockThreads :
                /\ thr[t].op /= None /\ thr'[t] /= thr[t]
                /\ \/ t \in {"cbL", "cbR"} /\ NextEvent(t) = Do("store")
                   \/ NextEvent(t) = Do("zero")]_vars
    /\ [](enc_counts = net)
    /\ [](\A t \in LockThreads :
            (thr[t].op /= None /\ thr[t].i >= 1) =>
                LET done == Script(thr[t].op)[thr[t].i] IN
                /\ done = Do("copyR") => thr[t].tmp = enc_counts
                /\ done = Do("zero") => enc_counts = ZeroCounts)

\* a left edge waits for the encoder lock while get_encoders() is half way
\* through its copy, after a right edge with channel B low was counted
C28_Witness ==
    /\ thr["cbL"].op = "enc_edge" /\ Blocked("cbL")
    /\ thr["api"].op = "get_encoders" /\ thr["api"].i = 2
    /\ enc_counts = [L |-> 0, R |-> 0 - 1]

\* C31: ERROR_PIN is high exactly when last_error is set; set_error raises
\* it; clear_error(component) empties last_error, marks the named component
\* OK and lowers it; update_op, update_component, update_battery and set_power
\* change neither the pin nor last_error.
C31_ErrorPinMirrorsLastError ==
    /\ []((sm.error_pin = 1) <=> (sm.status.last_error /= NoError))
    /\ [][(nCalls' /= nCalls /\ lastCall'.op = "set_error") =>
            (sm'.error_pin = 1 /\ sm'.status.last_error.component = lastCall'.component)]_vars
    /\ [][(nCalls' /= nCalls /\ lastCall'.op = "clear_error") =>
            /\ sm'.error_pin = 0
            /\ sm'.status.last_error = NoError
            /\ lastCall'.component /= None =>
                  sm'.status.components[lastCall'.component] = "OK"]_vars
    /\ [][(nCalls' /= nCalls /\ lastCall'.op \in {"update_op", "update_component",
                                                  "update_battery", "set_power"}) =>
            (sm'.error_pin = sm.error_pin /\ sm'.status.last_error = sm.status.last_error)]_vars

\* set_error raised the pin and a later set_power left it high
C31_Witness ==
    /\ lastCall.op = "set_power" /\ nCalls = 2
    /\ sm.error_pin = 1 /\ sm.status.last_error.message = "no echo"

\* C32: the entry the sprayer worker logs when it leaves the hold carries the
\* time the pump was asserted as its duration and that time multiplied by the
\* flow rate as its millilitres, also when the stop event cut the hold short.
C32_LogMatchesActualSpray ==
    [][(spc = "hold" /\ spc' /= "hold" /\ db_q' /= db_q) =>
        LET e == db_q'[Len(db_q')] IN
        /\ e.duration_s = elapsed
        /\ e.ml_used = elapsed * PUMP_FLOW_ML_PER_S]_vars

====
